---- MODULE Spec2Model ----
(***************************************************************************)
(* The Allocator / Allocation subsystem of neurology.                      *)
(*                                                                         *)
(* The repository holds three revisions of the allocator translation unit: *)
(*   "old"  src/unnamed/part_001, lines 992-1789                           *)
(*   "mid"  src/unnamed/part_001, lines 1-990                              *)
(*   "new"  src/unnamed/part_002 (Address class, split engine)             *)
(* The variable revision says which of them is linked; it is chosen in     *)
(* Init and never changes.  The newest revision leaves pool, repool,       *)
(* unpool, allocate and reallocate of the Allocator abstract               *)
(* (VoidAllocatorException); there the raw pool primitives are those of    *)
(* LocalAllocator (src/unnamed/part_000) and the binding-aware wrappers    *)
(* are the last concrete ones of the repository (the "mid" revision).      *)
(*                                                                         *)
(* Every C++ function is an operator from a state record to a state        *)
(* record.  The field err holds the exception in flight ("none" when       *)
(* there is none): an operator applied to a record whose err is set        *)
(* returns it unchanged, which is how a throw skips the rest of the        *)
(* caller.  What a failed operation changed before it threw stays changed. *)
(***************************************************************************)
EXTENDS Integers, Sequences, FiniteSets, TLC

\* Bounds of the model.  MaxAddr is the last address of the address space;
\* SmallSpace is the part of it the backing store hands out in the
\* specifications that exercise the binding tables rather than the data path.
MaxAddr == 4
SmallSpace == 3
MaxSize == 2
NumAllocs == 2
UnitSize == 1
MaxByte == 1
MaxLen == 3

\* The null pointer.
NULL == 0

Addr == 1..MaxAddr
Alloc == 1..NumAllocs
MoreAlloc == 1..(NumAllocs + 1)
Byte == 0..MaxByte
Revisions == {"old", "mid", "new"}

\* What ++ does to a std::set iterator whose element the loop body erased
\* (undefined behaviour): it reaches the next remaining element, or end().
IteratorOutcomes == {"next", "end"}

\* What an access outside pooled memory does: it goes through, or it faults.
HardwareOutcomes == {"ok", "fault"}

\* SIZE_T arithmetic wraps.
SizeModulus == 2 ^ 8

VARIABLES
    revision,      \* which revision of the allocator is linked
    space,         \* the last address new BYTE[] can hand out
    memoryPool,    \* Allocator::memoryPool / pooledMemory: extent start -> size
    heap,          \* the bytes of the address space
    bindings,      \* Allocator::bindings: extent start -> set of Allocation*
    allocator,     \* Allocation::allocator != NULL, per handle
    pointer,       \* Allocation::pointer (old, mid) / associations[allocation] (new)
    size,          \* Allocation::size (old, mid)
    addressPools,  \* Allocator::addressPools (new): extent start -> size of its AddressPool
    split,         \* Allocator::split (new)
    peer           \* a second Allocator: its tables and the Allocations whose
                   \* allocator field points to it

vars == <<revision, space, memoryPool, heap, bindings, allocator, pointer, size,
          addressPools, split, peer>>

----------------------------------------------------------------------------
\* Helpers of the model.

Min(x, y) == IF x < y THEN x ELSE y

Range(p, n) == p..(p + n - 1)

Put(f, k, v) == [x \in DOMAIN f \cup {k} |-> IF x = k THEN v ELSE f[x]]

Drop(f, k) == [x \in DOMAIN f \ {k} |-> f[x]]

\* The element after it in the ordered set S, 0 for end(); nextIn(S, 0) is begin().
nextIn(S, it) ==
    IF \E x \in S : x > it
    THEN CHOOSE x \in S : x > it /\ \A y \in S : y > it => x <= y
    ELSE 0

Max(S) == CHOOSE x \in S : \A y \in S : y <= x

\* The program state as a record, with the exception in flight (err), the
\* address and size a BadPointerException or KernelFaultException carries
\* (faultAddress, faultSize), the data returned (ret) and the inputs the
\* environment decides: hw, whether an access to mapped memory outside the pool
\* faults, page, whether an access to pooled memory faults, and junk, the value
\* of a byte read past the end of a buffer.
State ==
    [memoryPool |-> memoryPool, heap |-> heap, bindings |-> bindings,
     allocator |-> allocator, pointer |-> pointer, size |-> size,
     addressPools |-> addressPools, split |-> split, err |-> "none",
     ret |-> <<>>,
     faultAddress |-> NULL, faultSize |-> 0, hw |-> "ok", page |-> "ok",
     junk |-> 0]

StateIn(hw, junk) == [State EXCEPT !.hw = hw, !.junk = junk]

throw(s, e) == IF s.err = "none" THEN [s EXCEPT !.err = e] ELSE s

\* std::map::operator[] on bindings: inserts an empty set for a missing key.
touch(s, address) ==
    IF address \in DOMAIN s.bindings THEN s
    ELSE [s EXCEPT !.bindings = Put(@, address, {})]

\* A default-constructed AddressPool spans the whole label space.
DefaultPoolSize == MaxAddr + 1

----------------------------------------------------------------------------
\* Predicates.

isPooled(s, address) == address \in DOMAIN s.memoryPool

Allocator_isBound(s, a) ==
    /\ s.pointer[a] \in DOMAIN s.bindings
    /\ a \in s.bindings[s.pointer[a]]

querySize(s, a) ==
    IF s.pointer[a] \in DOMAIN s.addressPools
    THEN s.addressPools[s.pointer[a]]
    ELSE DefaultPoolSize

\* Allocation::size() (new) / Allocation::getSize() (old, mid).
getSize(s, a) == IF revision = "new" THEN querySize(s, a) ELSE s.size[a]

\* In the new revision size() goes through Allocator::querySize, which throws
\* for a handle that has an association but is in no binding set: there the
\* predicates below raise instead of answering.
predicateRaises(s, a) ==
    /\ revision = "new"
    /\ s.allocator[a]
    /\ s.pointer[a] # NULL
    /\ ~Allocator_isBound(s, a)

Allocation_isNull(s, a) ==
    \/ ~s.allocator[a]
    \/ s.pointer[a] = NULL
    \/ getSize(s, a) = 0

Allocation_isValid(s, a) ==
    IF revision = "new"
    THEN ~Allocation_isNull(s, a) /\ Allocator_isBound(s, a) /\ isPooled(s, s.pointer[a])
    ELSE s.allocator[a] /\ s.pointer[a] # NULL /\ s.size[a] # 0 /\ isPooled(s, s.pointer[a])

Allocation_isBound(s, a) ==
    IF revision = "new"
    THEN ~Allocation_isNull(s, a) /\ Allocator_isBound(s, a)
    ELSE Allocation_isValid(s, a) /\ Allocator_isBound(s, a)

throwIfNotPooled(s, address) ==
    IF isPooled(s, address) THEN s ELSE throw(s, "UnpooledAddress")

throwIfBound(s, a) ==
    IF Allocator_isBound(s, a) THEN throw(s, "BoundAllocation") ELSE s

throwIfNotBound(s, a) ==
    IF Allocator_isBound(s, a) THEN s ELSE throw(s, "UnboundAllocation")

throwIfNoAllocator(s, a) ==
    IF s.allocator[a] THEN s ELSE throw(s, "NoAllocator")

throwIfInvalid(s, a) ==
    IF ~s.allocator[a] THEN throw(s, "NoAllocator")
    ELSE IF predicateRaises(s, a) THEN throw(s, "UnboundAllocation")
    ELSE IF Allocation_isValid(s, a) THEN s
    ELSE IF s.pointer[a] = NULL THEN throw(s, "DeadAllocation")
    ELSE IF getSize(s, a) = 0 THEN throw(s, "ZeroSize")
    ELSE throwIfNotPooled(s, s.pointer[a])

\* The predicates of the new revision as they are written, call by call.  The
\* functions are const and read the same state each time, so a call of a
\* function that is already on the call stack repeats for ever: "diverges".
\* The answers are "true" / "false" (a predicate), "zero" / "nonzero" (a
\* size), "ok" (address, throwIfInvalid) or the exception thrown.  The test
\* `this->size == 0` of throwIfInvalid names the member function without
\* calling it and is never true.
RECURSIVE evaluate(_, _, _, _)
evaluate(s, a, f, stack) ==
    LET call(g) == evaluate(s, a, g, stack \cup {f})
        bool(b) == IF b THEN "true" ELSE "false"
    IN  IF f \in stack THEN "diverges"
        ELSE CASE f = "Allocation::isNull" ->
                      IF ~s.allocator[a] \/ s.pointer[a] = NULL THEN "true"
                      ELSE IF call("Allocation::size") = "zero" THEN "true"
                      ELSE IF call("Allocation::size") = "nonzero" THEN "false"
                      ELSE call("Allocation::size")
               [] f = "Allocation::isBound" ->
                      IF call("Allocation::isNull") = "true" THEN "false"
                      ELSE IF call("Allocation::isNull") = "false"
                      THEN call("Allocator::isBound")
                      ELSE call("Allocation::isNull")
               [] f = "Allocation::isValid" ->
                      IF call("Allocation::isBound") # "true"
                      THEN call("Allocation::isBound")
                      ELSE IF call("Allocation::address") # "ok"
                      THEN call("Allocation::address")
                      ELSE bool(isPooled(s, s.pointer[a]))
               [] f = "Allocation::size" ->
                      IF ~s.allocator[a] THEN "NoAllocator"
                      ELSE call("Allocator::querySize")
               [] f = "Allocator::querySize" ->
                      IF call("Allocator::isBound") = "false" THEN "UnboundAllocation"
                      ELSE IF call("Allocator::isBound") # "true"
                      THEN call("Allocator::isBound")
                      ELSE IF querySize(s, a) = 0 THEN "zero" ELSE "nonzero"
               [] f = "Allocator::isBound" ->
                      IF call("Allocation::address") # "ok"
                      THEN call("Allocation::address")
                      ELSE bool(Allocator_isBound(s, a))
               [] f = "Allocation::address" ->
                      call("Allocation::throwIfInvalid")
               [] f = "Allocation::throwIfInvalid" ->
                      IF call("Allocation::isValid") = "true" THEN "ok"
                      ELSE IF call("Allocation::isValid") # "false"
                      THEN call("Allocation::isValid")
                      ELSE IF ~s.allocator[a] THEN "NoAllocator"
                      ELSE IF s.pointer[a] = NULL THEN "DeadAllocation"
                      ELSE IF ~isPooled(s, s.pointer[a]) THEN "UnpooledAddress"
                      ELSE "ok"

----------------------------------------------------------------------------
\* Pool primitives.

\* A place new BYTE[n] can return: n free bytes at p.
Fits(s, p, n) ==
    /\ p \in Addr
    /\ p + n - 1 <= space
    /\ p \notin DOMAIN s.memoryPool
    /\ \A q \in DOMAIN s.memoryPool :
           Range(q, s.memoryPool[q]) \cap Range(p, n) = {}

\* The places new BYTE[n] can return; NULL alone when the store is exhausted,
\* and then a call that pools does not happen (see Commit).
Places(s, n) ==
    IF \E p \in Addr : Fits(s, p, n) THEN {p \in Addr : Fits(s, p, n)} ELSE {NULL}

zeroAddress(s, p, n) ==
    [s EXCEPT !.heap = [x \in Addr |-> IF x \in Range(p, n) THEN 0 ELSE @[x]]]

Allocator_pool(s, n, p) ==
    IF s.err # "none" THEN s
    ELSE IF n = 0 THEN throw(s, "ZeroSize")
    ELSE IF p = NULL THEN throw(s, "NoMemory")
    ELSE zeroAddress([s EXCEPT !.memoryPool = Put(@, p, n)], p, n)

poolAddress(s, n, p) ==
    IF s.err # "none" THEN s
    ELSE IF p = NULL THEN throw(s, "NoMemory")
    ELSE zeroAddress([s EXCEPT !.memoryPool = Put(@, p, n)], p, n)

pool(s, n, p) ==
    IF revision = "new" THEN poolAddress(s, n, p) ELSE Allocator_pool(s, n, p)

\* The tail of unpool: the extent is zeroed (not in the old revision),
\* deleted and erased from the pool.
unpoolAddress(s, address) ==
    IF s.err # "none" THEN s
    ELSE IF ~isPooled(s, address) THEN throw(s, "UnpooledAddress")
    ELSE IF revision = "old" THEN [s EXCEPT !.memoryPool = Drop(@, address)]
    ELSE [zeroAddress(s, address, s.memoryPool[address])
              EXCEPT !.memoryPool = Drop(@, address)]

----------------------------------------------------------------------------
\* The binding state machine.

RECURSIVE Allocator_unbind(_, _, _)
RECURSIVE Allocator_unpool(_, _, _)
RECURSIVE unpoolLoop(_, _, _, _)

\* ++setIter in a loop over bindings[address] whose body may have erased
\* *setIter: the element after it, or end() (0).
setNext(s, address, it, ub) ==
    IF it \notin s.bindings[address] /\ ub = "end" THEN 0
    ELSE nextIn(s.bindings[address], it)

\* The rest of a turn of the loop of unpool, s1 being the state unbind left:
\* the loop condition reads bindings[address] and goes on.
unpoolTurn(s1, address, it, ub) ==
    IF s1.err # "none" THEN s1
    ELSE unpoolLoop(touch(s1, address), address,
                    setNext(touch(s1, address), address, it, ub), ub)

\* for (setIter = bindings[address].begin(); setIter != bindings[address].end();
\*      ++setIter) unbind(*setIter);
unpoolLoop(s, address, it, ub) ==
    IF s.err # "none" \/ it = 0 THEN s
    ELSE unpoolTurn(Allocator_unbind(s, it, ub), address, it, ub)

\* After the loop: "did unbind destroy us? return if so".
unpoolTail(s1, address) ==
    IF s1.err # "none" THEN s1
    ELSE IF ~isPooled(s1, address) THEN s1
    ELSE unpoolAddress(s1, address)

Allocator_unpool(s, address, ub) ==
    IF s.err # "none" THEN s
    ELSE IF ~isPooled(s, address) THEN throw(s, "UnpooledAddress")
    ELSE IF address \in DOMAIN s.bindings
    THEN unpoolTail(unpoolLoop(s, address, nextIn(s.bindings[address], 0), ub),
                    address)
    ELSE unpoolAddress(s, address)

\* Allocator::deallocate(Allocation &) of an Allocation the Allocator created
\* (throwIfNotAllocated passes): the extent it points to is unpooled.
Allocator_deallocate(s, a, ub) ==
    Allocator_unpool(throwIfNotPooled(s, s.pointer[a]), s.pointer[a], ub)

\* bindings[boundAddress].erase(allocation), and bindings.erase(boundAddress)
\* when that leaves the set empty.
eraseBinding(s, a, boundAddress) ==
    [s EXCEPT !.bindings = IF s.bindings[boundAddress] \ {a} = {}
                           THEN Drop(@, boundAddress)
                           ELSE Put(@, boundAddress, s.bindings[boundAddress] \ {a})]

\* if (condition) unpool(boundAddress);
unpoolIf(s1, condition, boundAddress, ub) ==
    IF condition THEN Allocator_unpool(s1, boundAddress, ub) ELSE s1

unbind_old(s, a, ub) ==
    unpoolIf(eraseBinding(s, a, s.pointer[a]),
             isPooled(s, s.pointer[a]),
             s.pointer[a], ub)

unbind_mid(s, a, ub) ==
    unpoolIf([eraseBinding(s, a, s.pointer[a])
                  EXCEPT !.pointer[a] = NULL, !.size[a] = 0],
             s.bindings[s.pointer[a]] \ {a} = {} /\ isPooled(s, s.pointer[a]),
             s.pointer[a], ub)

unbind_new(s, a, ub) ==
    unpoolIf([eraseBinding(s, a, s.pointer[a])
                  EXCEPT !.addressPools = Drop(@, s.pointer[a]),
                         !.pointer[a] = NULL],
             s.bindings[s.pointer[a]] \ {a} = {} /\ isPooled(s, s.pointer[a]),
             s.pointer[a], ub)

\* An unbind that forgets the handle: the binding is removed and the extent
\* released, but the pointer and the size of the Allocation stay as they were.
unbind_stale(s, a, ub) ==
    LET s1 == throwIfNotPooled(throwIfNotBound(s, a), s.pointer[a])
    IN  IF s1.err # "none" THEN s1
        ELSE unpoolIf([eraseBinding(s1, a, s.pointer[a])
                           EXCEPT !.addressPools = IF revision = "new"
                                                   THEN Drop(@, s.pointer[a])
                                                   ELSE @],
                      s.bindings[s.pointer[a]] \ {a} = {},
                      s.pointer[a], ub)

\* unbind once throwIfNotBound and throwIfNotPooled have been passed.
unbindChecked(s2, a, ub) ==
    IF s2.err # "none" THEN s2
    ELSE IF revision = "old" THEN unbind_old(s2, a, ub)
    ELSE IF revision = "mid" THEN unbind_mid(s2, a, ub)
    ELSE unbind_new(s2, a, ub)

Allocator_unbind(s, a, ub) ==
    unbindChecked(throwIfNotPooled(throwIfNotBound(s, a), s.pointer[a]), a, ub)

\* bind once throwIfNotPooled and throwIfBound have been passed.
bindChecked(s2, a, address) ==
    IF s2.err # "none" THEN s2
    ELSE IF revision = "new"
    THEN [touch(s2, address)
              EXCEPT !.bindings[address] = @ \cup {a},
                     !.allocator[a] = TRUE,
                     !.addressPools = IF address \in DOMAIN @ THEN @
                                      ELSE Put(@, address, s2.memoryPool[address]),
                     !.pointer[a] = address]
    ELSE [touch(s2, address)
              EXCEPT !.bindings[address] = @ \cup {a},
                     !.allocator[a] = TRUE,
                     !.pointer[a] = address,
                     !.size[a] = s2.memoryPool[address]]

\* A bind that does not ask whether the Allocation is bound already.
bind_rebinding(s, a, address) ==
    bindChecked(throwIfNotPooled(s, address), a, address)

Allocator_bind(s, a, address) ==
    bindChecked(throwIfBound(throwIfNotPooled(s, address), a), a, address)

\* bindings[newAddress].insert(allocation); bindings[oldAddress].erase(allocation);
\* and the fields of the Allocation.
rebindMove(s2, a, oldAddress, newAddress) ==
    [[touch(s2, newAddress) EXCEPT !.bindings[newAddress] = @ \cup {a}]
         EXCEPT !.bindings[oldAddress] = @ \ {a},
                !.allocator[a] = TRUE,
                !.pointer[a] = newAddress,
                !.size[a] = IF revision = "new" THEN @
                            ELSE s2.memoryPool[newAddress]]

\* if (bindings[oldAddress].size() == 0) unpool(oldAddress); the new revision
\* erases the entry first.
rebindRelease(s5, oldAddress, ub) ==
    IF s5.bindings[oldAddress] # {} THEN s5
    ELSE Allocator_unpool(IF revision = "new"
                          THEN [s5 EXCEPT !.bindings = Drop(@, oldAddress)]
                          ELSE s5,
                          oldAddress, ub)

\* rebind of a bound Allocation once the throwIf checks have been passed.
rebindChecked(s2, a, oldAddress, newAddress, ub) ==
    IF s2.err # "none" THEN s2
    ELSE rebindRelease(rebindMove(s2, a, oldAddress, newAddress), oldAddress, ub)

\* A rebind that forgets to take the Allocation out of the binding set of the
\* address it leaves.
rebind_keeping(s, a, newAddress, ub) ==
    IF s.err # "none" THEN s
    ELSE IF ~Allocator_isBound(s, a) THEN Allocator_bind(s, a, newAddress)
    ELSE LET s1 == throwIfNotPooled(throwIfNotPooled(s, s.pointer[a]), newAddress)
             s2 == touch(s1, newAddress)
         IN  IF s1.err # "none" THEN s1
             ELSE [s2 EXCEPT !.bindings[newAddress] = @ \cup {a},
                             !.pointer[a] = newAddress,
                             !.size[a] = IF revision = "new" THEN @
                                         ELSE s2.memoryPool[newAddress]]

Allocator_rebind(s, a, newAddress, ub) ==
    IF s.err # "none" THEN s
    ELSE IF ~Allocator_isBound(s, a) THEN Allocator_bind(s, a, newAddress)
    ELSE rebindChecked(
             throwIfNotPooled(
                 throwIfNotPooled(IF revision = "new" THEN throwIfInvalid(s, a) ELSE s,
                                  s.pointer[a]),
                 newAddress),
             a, s.pointer[a], newAddress, ub)

----------------------------------------------------------------------------
\* Allocation.

\* An allocate that pools without asking whether the Allocation is valid.
allocatePool_unchecked(s1, a, n, p) ==
    IF s1.err # "none" THEN s1 ELSE pool(s1, n, p)

\* allocate once throwIfNoAllocator has been passed: the double-allocation
\* check and the pooling.
allocatePool(s1, a, n, p) ==
    IF s1.err # "none" THEN s1
    ELSE IF predicateRaises(s1, a) THEN throw(s1, "UnboundAllocation")
    ELSE IF (IF revision = "new" THEN Allocation_isValid(s1, a)
             ELSE s1.pointer[a] # NULL /\ isPooled(s1, s1.pointer[a]))
    THEN throw(s1, "DoubleAllocation")
    ELSE pool(s1, n, p)

\* allocation->pointer = pool(size); allocation->size = size; bind(...).
allocateBind(s2, a, n, p) ==
    IF s2.err # "none" THEN s2
    ELSE Allocator_bind(IF revision = "new" THEN s2
                        ELSE [s2 EXCEPT !.pointer[a] = p, !.size[a] = n],
                        a, p)

Allocation_allocate(s, a, n, p) ==
    allocateBind(allocatePool(throwIfNoAllocator(s, a), a, n, p), a, n, p)

Allocation_deallocate(s, a, ub) ==
    Allocator_unbind(throwIfNotBound(throwIfInvalid(s, a), a), a, ub)

\* this->allocator = allocation.allocator;
takeAllocator(s1, a, b) ==
    IF s1.err # "none" THEN s1
    ELSE [s1 EXCEPT !.allocator[a] = s1.allocator[b]]

\* if (this->isBound()) rebind(this, allocation.pointer); else bind(...).
bindOrRebind(s2, a, address, ub) ==
    IF s2.err # "none" THEN s2
    ELSE IF predicateRaises(s2, a) THEN throw(s2, "UnboundAllocation")
    ELSE IF Allocation_isBound(s2, a) THEN Allocator_rebind(s2, a, address, ub)
    ELSE Allocator_bind(s2, a, address)

\* Allocation::copy (mid, new).
Allocation_copy(s, a, b, ub) ==
    bindOrRebind(takeAllocator(throwIfInvalid(s, b), a, b), a, s.pointer[b], ub)

\* this->pointer = allocation.pointer; this->size = allocation.size;
takeFields(s2, a, b) ==
    IF s2.err # "none" THEN s2
    ELSE [s2 EXCEPT !.pointer[a] = s2.pointer[b], !.size[a] = s2.size[b]]

\* operator=(Allocation &) of the old revision once the allocator is taken.
assignBind_old(s1, a, b, ub) ==
    IF ~Allocation_isValid(s1, b) THEN s1
    ELSE bindOrRebind(s1, a, s1.pointer[b], ub)

\* The aliasing assignment of the old revision, which has no copy: it binds
\* and then copies pointer and size.
operator_assign_old(s, a, b, ub) ==
    takeFields(assignBind_old(takeAllocator(s, a, b), a, b, ub), a, b)

\* operator=(Allocation &) (mid, new) once the allocator is taken: a copy when
\* the source is valid, else the fields of the source are taken over and no
\* table is touched.
assignCopy(s1, a, b, ub) ==
    IF predicateRaises(s1, b) THEN throw(s1, "UnboundAllocation")
    ELSE IF Allocation_isValid(s1, b) THEN Allocation_copy(s1, a, b, ub)
    ELSE IF revision = "new" THEN s1
    ELSE takeFields(s1, a, b)

operator_assign(s, a, b, ub) ==
    assignCopy(takeAllocator(s, a, b), a, b, ub)

\* Allocation(Allocator *): a fresh handle.
construct(s, a) ==
    IF revision = "new" THEN [s EXCEPT !.allocator[a] = TRUE]
    ELSE [s EXCEPT !.allocator[a] = TRUE, !.pointer[a] = NULL, !.size[a] = 0]

\* ~Allocation: the handle is unbound if it is bound.
destroy(s, a, ub) ==
    IF ~s.allocator[a] THEN s
    ELSE IF predicateRaises(s, a) THEN throw(s, "UnboundAllocation")
    ELSE IF Allocation_isBound(s, a) THEN Allocator_unbind(s, a, ub)
    ELSE s

----------------------------------------------------------------------------
\* Repooling.

PooledBytes(s) ==
    UNION {Range(q, s.memoryPool[q]) : q \in DOMAIN s.memoryPool}

\* The exception of a faulting copy.
fault == IF revision = "new" THEN "KernelFault" ELSE "BadPointer"

\* The bytes of Addr are the mapped pages of the process heap.  A copy that
\* leaves them faults; a copy that stays in them but leaves pooled memory
\* touches freed or never allocated bytes, and faults or goes through (hw).
\* A copy within pooled memory faults only when the pages have been made
\* inaccessible from outside the Allocator (page).
faults(s, address, n) ==
    \/ ~(Range(address, n) \subseteq Addr)
    \/ ~(Range(address, n) \subseteq PooledBytes(s)) /\ s.hw = "fault"
    \/ s.page = "fault"

\* throw BadPointerException(*this, allocation, address, size) and
\* throw KernelFaultException(status, address, ..., size).
throwFault(s, address, n) ==
    [throw(s, fault) EXCEPT !.faultAddress = address, !.faultSize = n]

RECURSIVE repoolLoop(_, _, _, _, _)

\* The rest of a turn of the loop of repool, s1 being the state rebind left.
repoolTurn(s1, address, newPool, it, ub) ==
    IF s1.err # "none" THEN s1
    ELSE repoolLoop(touch(s1, address), address, newPool,
                    setNext(touch(s1, address), address, it, ub), ub)

\* for (setIter = bindings[address].begin(); setIter != bindings[address].end();
\*      ++setIter) rebind(*setIter, newPool);
repoolLoop(s, address, newPool, it, ub) ==
    IF s.err # "none" \/ it = 0 THEN s
    ELSE repoolTurn(Allocator_rebind(s, it, newPool, ub), address, newPool, it, ub)

\* if (!CopyData(newPool, address, min(size, memoryPool[address])))
\*    throw BadPointerException(...);
copyPool(s, newPool, address, n) ==
    IF s.err # "none" THEN s
    ELSE IF faults(s, address, Min(n, s.memoryPool[address]))
    THEN throwFault(s, address, Min(n, s.memoryPool[address]))
    ELSE [s EXCEPT !.heap = [x \in Addr |->
              IF x \in Range(newPool, Min(n, s.memoryPool[address]))
              THEN s.heap[address + (x - newPool)] ELSE @[x]]]

\* The bindings of address are moved to the new pool.
repoolMove(s1, address, newPool, ub) ==
    IF s1.err = "none" /\ address \in DOMAIN s1.bindings
    THEN repoolLoop(s1, address, newPool, nextIn(s1.bindings[address], 0), ub)
    ELSE s1

\* "if the address is still pooled after having all its bindings moved,
\* destroy it".
repoolTail(s2, address, ub) ==
    IF s2.err # "none" THEN s2
    ELSE IF isPooled(s2, address) THEN Allocator_unpool(s2, address, ub)
    ELSE s2

\* repool with throwIfNotPooled(address) after pool(size).
repool_late(s, address, n, p, ub) ==
    IF s.err # "none" THEN s
    ELSE IF ~isPooled(s, address) THEN throw(pool(s, n, p), "UnpooledAddress")
    ELSE repoolTail(repoolMove(copyPool(pool(s, n, p), p, address, n),
                               address, p, ub),
                    address, ub)

Allocator_repool(s, address, n, p, ub) ==
    IF s.err # "none" THEN s
    ELSE IF ~isPooled(s, address) THEN throw(s, "UnpooledAddress")
    ELSE repoolTail(repoolMove(copyPool(pool(s, n, p), p, address, n),
                               address, p, ub),
                    address, ub)

\* allocation->pointer = repool(...); allocation->size = size;
reallocateFields(s1, a, n, p) ==
    IF s1.err # "none" \/ revision = "new" THEN s1
    ELSE [s1 EXCEPT !.pointer[a] = p, !.size[a] = n]

Allocation_reallocate(s, a, n, p, ub) ==
    IF s.err # "none" THEN s
    ELSE IF predicateRaises(s, a) THEN throw(s, "UnboundAllocation")
    ELSE IF ~Allocation_isValid(s, a) THEN Allocation_allocate(s, a, n, p)
    ELSE reallocateFields(Allocator_repool(s, s.pointer[a], n, p, ub), a, n, p)

----------------------------------------------------------------------------
\* Raw memory.

readAddress(s, address, n) ==
    IF s.err # "none" THEN s
    ELSE IF faults(s, address, n) THEN throwFault(s, address, n)
    ELSE [s EXCEPT !.ret = [i \in 1..n |-> s.heap[address + i - 1]]]

writeAddress(s, address, data) ==
    IF s.err # "none" THEN s
    ELSE IF faults(s, address, Len(data)) THEN throwFault(s, address, Len(data))
    ELSE [s EXCEPT !.heap = [x \in Addr |->
              IF x \in Range(address, Len(data))
              THEN data[x - address + 1] ELSE @[x]]]

\* BlockData(data.data() + left, n): the bytes past the end of data are junk.
BlockData(s, data, left, n) ==
    [i \in 1..n |-> IF left + i <= Len(data) THEN data[left + i] ELSE s.junk]

----------------------------------------------------------------------------
\* Ranges.

end(s, a) == s.pointer[a] + getSize(s, a)

inRange(s, a, address) ==
    IF revision = "new"
    THEN address >= s.pointer[a] /\ address < end(s, a)
    ELSE /\ s.pointer[a] # NULL
         /\ s.size[a] # 0
         /\ address >= s.pointer[a]
         /\ address <= end(s, a)

\* address + size - 1 and address + size are computed in the width of a
\* pointer, offset + size - 1 and offset + size in that of SIZE_T: the sums wrap.
inRangeSize(s, a, address, n) ==
    IF revision = "new"
    THEN /\ n # 0
         /\ inRange(s, a, address)
         /\ inRange(s, a, (address + n - 1) % SizeModulus)
    ELSE inRange(s, a, address) /\ inRange(s, a, (address + n) % SizeModulus)

\* Allocation::inRange(SIZE_T offset).
inRangeOffset(s, a, offset) ==
    IF revision = "new"
    THEN /\ ~Allocation_isNull(s, a)
         /\ getSize(s, a) # 0
         /\ inRange(s, a, (s.pointer[a] + offset) % SizeModulus)
    ELSE inRange(s, a, (s.pointer[a] + offset) % SizeModulus)

\* Allocation::inRange(SIZE_T offset, SIZE_T size).
inRangeOffsetSize(s, a, offset, n) ==
    IF revision = "new"
    THEN /\ n # 0
         /\ inRangeOffset(s, a, offset)
         /\ inRangeOffset(s, a, (offset + n - 1) % SizeModulus)
    ELSE /\ inRangeOffset(s, a, offset)
         /\ inRangeOffset(s, a, (offset + n) % SizeModulus)

\* Allocator::read without allocation.throwIfNotInRange(address, size).
read_unchecked(s, a, address, n) == readAddress(s, address, n)

\* Allocator::read / Allocator::write (allocation, address, ...).
Allocator_read(s, a, address, n) ==
    IF s.err # "none" THEN s
    ELSE IF ~inRangeSize(s, a, address, n) THEN throw(s, "AddressOutOfRange")
    ELSE readAddress(s, address, n)

Allocator_write(s, a, address, data) ==
    IF s.err # "none" THEN s
    ELSE IF ~inRangeSize(s, a, address, Len(data)) THEN throw(s, "AddressOutOfRange")
    ELSE writeAddress(s, address, data)

----------------------------------------------------------------------------
\* The split engine (new revision).

\* The switch: this->split = true, this->split = false, return this->split.
Allocator_allowSplitting(s) == [s EXCEPT !.split = TRUE]

Allocator_denySplitting(s) == [s EXCEPT !.split = FALSE]

Allocator_splits(s) == s.split

\* *set.begin(); NULL stands for the dereference of end() of an empty set.
first(S) == IF S = {} THEN NULL ELSE CHOOSE x \in S : \A y \in S : x <= y

\* The binding set find looks into: the one keyed by address, else the one
\* before upper_bound(address); NULL when there is none.
findKey(s, address) ==
    IF address \in DOMAIN s.bindings THEN address
    ELSE IF \E k \in DOMAIN s.bindings : k < address
    THEN Max({k \in DOMAIN s.bindings : k < address})
    ELSE NULL

\* find, once the key k is known, as far as it can throw.
findRaisesAt(s, address, k) ==
    IF k = NULL THEN s
    ELSE IF first(s.bindings[k]) = NULL THEN throw(s, "AccessViolation")
    ELSE IF k = address THEN s
    ELSE throwIfInvalid(s, first(s.bindings[k]))

\* find evaluates inRange on the Allocation it found below address, and
\* inRange calls start(), which throws for an Allocation that is not valid.
findRaises(s, address) == findRaisesAt(s, address, findKey(s, address))

\* find, once the key k is known, as far as it returns.
findAt(s, address, k) ==
    IF k = NULL THEN NULL
    ELSE IF first(s.bindings[k]) = NULL THEN NULL
    ELSE IF k = address THEN first(s.bindings[k])
    ELSE IF inRange(s, first(s.bindings[k]), address) THEN first(s.bindings[k])
    ELSE NULL

\* The Allocation found, NULL for the null Allocation.
find(s, address) == findAt(s, address, findKey(s, address))

\* !find(address).isNull()
isAllocation(s, f) == f # NULL /\ ~Allocation_isNull(s, f)

hasAddress(s, address) == isAllocation(s, find(s, address))

\* throwIfNoAllocation once find has returned.
requireAllocation(s1, address) ==
    IF s1.err # "none" THEN s1
    ELSE IF hasAddress(s1, address) THEN s1
    ELSE throw(s1, "AddressHasNoAllocation")

throwIfNoAllocation(s, address) ==
    requireAllocation(findRaises(s, address), address)

\* willSplit once find has returned the Allocation f: upper_bound(address) of
\* the pool is the extent the span would run into.
splitsAfter(s, f, address, n) ==
    LET above == {q \in DOMAIN s.memoryPool : q > address}
    IN  /\ isAllocation(s, f)
        /\ ~inRangeSize(s, f, address, n)
        /\ above # {}
        /\ \A q \in above : end(s, f) <= q
        /\ end(s, f) \in above

willSplit(s, address, n) == splitsAfter(s, find(s, address), address, n)

\* result.resize(result.size() + stackData.size());
\* MoveMemory(result.data() + result.size(), stackData.data(), stackData.size());
\* the piece is copied past the new end of result, whose new bytes stay zero.
appendPiece(result, piece) == result \o [i \in 1..Len(piece) |-> 0]

\* After the loops of splitRead and splitWrite: r is the state the loop left
\* and what it left of the span, done what it leaves of a span wholly served.
splitResult(r, done) ==
    IF r.s.err # "none" THEN r.s
    ELSE IF r.left # done THEN throw(r.s, "SplitsExceeded")
    ELSE r.s

RECURSIVE splitReadLoop(_, _, _, _, _)

\* newSize of a turn of splitRead: all of size, or up to the end of boundAlloc.
pieceSize(s, boundAlloc, addressIter, n) ==
    IF inRangeSize(s, boundAlloc, addressIter, n) THEN n
    ELSE (end(s, boundAlloc) - addressIter) % SizeModulus

\* MoveMemory past the end of result, which is outside the buffer.
overrun(s1) ==
    IF s1.err = "none" /\ s1.ret # <<>> /\ s1.hw = "fault"
    THEN throw(s1, "AccessViolation")
    ELSE s1

\* The rest of a turn of splitRead, s2 being the state after the piece was
\* read and appended: the loop goes on to the next binding set if its first
\* Allocation starts where boundAlloc ends.
splitReadNext(s, s2, n, left, result, boundAlloc, nextKey) ==
    IF s2.err # "none" THEN [s |-> s2, left |-> n]
    ELSE IF left = 0 \/ nextKey = 0
    THEN [s |-> [s2 EXCEPT !.ret = appendPiece(result, s2.ret)], left |-> left]
    ELSE IF first(s.bindings[nextKey]) = NULL
    THEN [s |-> throw(s2, "AccessViolation"), left |-> left]
    ELSE IF end(s, boundAlloc) # s.pointer[first(s.bindings[nextKey])]
    THEN [s |-> [s2 EXCEPT !.ret = appendPiece(result, s2.ret)], left |-> left]
    ELSE splitReadLoop(s2, nextKey, nextKey, left, appendPiece(result, s2.ret))

\* A turn of splitRead on boundAlloc = *bindingIter->second.begin().
splitReadTurn(s, key, addressIter, n, result, boundAlloc) ==
    IF boundAlloc = NULL THEN [s |-> throw(s, "AccessViolation"), left |-> n]
    ELSE splitReadNext(s,
             overrun(Allocator_read(s, boundAlloc, addressIter,
                                    pieceSize(s, boundAlloc, addressIter, n))),
             n,
             (n - pieceSize(s, boundAlloc, addressIter, n)) % SizeModulus,
             result, boundAlloc, nextIn(DOMAIN s.bindings, key))

\* One turn of the while loop of splitRead; the result is the state with the
\* buffer in ret, and what is left of size.
splitReadLoop(s, key, addressIter, n, result) ==
    splitReadTurn(s, key, addressIter, n, result, first(s.bindings[key]))

\* if (!willSplit(startAddress, size)) this->read(...): the result is dropped
\* and the function goes on.
splitReadUnsplit(s1, startAddress, n) ==
    IF s1.err = "none" /\ ~willSplit(s1, startAddress, n)
    THEN Allocator_read(s1, find(s1, startAddress), startAddress, n)
    ELSE s1

\* The while loop of splitRead and the check after it.
splitReadSpan(s2, startAddress, n) ==
    IF s2.err # "none" THEN s2
    ELSE splitResult(splitReadLoop(s2, findKey(s2, startAddress), startAddress,
                                   n, <<>>), 0)

splitRead(s, startAddress, n) ==
    splitReadSpan(splitReadUnsplit(throwIfNoAllocation(s, startAddress),
                                   startAddress, n),
                  startAddress, n)

RECURSIVE splitWriteLoop(_, _, _, _, _)

\* windowRight of a turn of splitWrite: size stays data.size() throughout.
windowEnd(s, boundAlloc, addressIter, data, windowLeft) ==
    IF inRangeSize(s, boundAlloc, addressIter, Len(data)) THEN Len(data)
    ELSE (windowLeft + end(s, boundAlloc) - addressIter) % SizeModulus

\* this->write(boundAlloc, addressIter, dataSlice)
writeWindow(s, boundAlloc, addressIter, data, windowLeft, windowRight) ==
    IF windowRight < windowLeft THEN throw(s, "AccessViolation")
    ELSE Allocator_write(s, boundAlloc, addressIter,
                         BlockData(s, data, windowLeft, windowRight - windowLeft))

\* The rest of a turn of splitWrite, s1 being the state after the write.
splitWriteNext(s, s1, data, windowLeft, windowRight, boundAlloc, nextKey) ==
    IF s1.err # "none" THEN [s |-> s1, left |-> windowLeft]
    ELSE IF windowRight = Len(data) \/ nextKey = 0
    THEN [s |-> s1, left |-> windowRight]
    ELSE IF first(s.bindings[nextKey]) = NULL
    THEN [s |-> throw(s1, "AccessViolation"), left |-> windowRight]
    ELSE IF end(s, boundAlloc) # s.pointer[first(s.bindings[nextKey])]
    THEN [s |-> s1, left |-> windowRight]
    ELSE splitWriteLoop(s1, nextKey, nextKey, data, windowRight)

\* A turn of splitWrite on boundAlloc = *bindingIter->second.begin().
splitWriteTurn(s, key, addressIter, data, windowLeft, boundAlloc) ==
    IF boundAlloc = NULL
    THEN [s |-> throw(s, "AccessViolation"), left |-> windowLeft]
    ELSE splitWriteNext(s,
             writeWindow(s, boundAlloc, addressIter, data, windowLeft,
                         windowEnd(s, boundAlloc, addressIter, data, windowLeft)),
             data, windowLeft,
             windowEnd(s, boundAlloc, addressIter, data, windowLeft),
             boundAlloc, nextIn(DOMAIN s.bindings, key))

\* One turn of the while loop of splitWrite.
splitWriteLoop(s, key, addressIter, data, windowLeft) ==
    splitWriteTurn(s, key, addressIter, data, windowLeft, first(s.bindings[key]))

\* Allocator::write(address, data) when the span does not split: it calls
\* read where write was meant, so the range is checked and nothing is stored.
writeUnsplit(s, address, data) ==
    [Allocator_read(s, find(s, address), address, Len(data)) EXCEPT !.ret = <<>>]

\* if (!willSplit(destination, size)) this->write(destination, data);
splitWriteUnsplit(s1, destination, data) ==
    IF s1.err = "none" /\ ~willSplit(s1, destination, Len(data))
    THEN writeUnsplit(s1, destination, data)
    ELSE s1

\* The while loop of splitWrite and the check after it.
splitWriteSpan(s2, destination, data) ==
    IF s2.err # "none" THEN s2
    ELSE splitResult(splitWriteLoop(s2, findKey(s2, destination), destination,
                                    data, 0), Len(data))

splitWrite(s, destination, data) ==
    splitWriteSpan(splitWriteUnsplit(throwIfNoAllocation(s, destination),
                                     destination, data),
                   destination, data)

----------------------------------------------------------------------------
\* Allocation: the data path.

\* catch (AddressOutOfRangeException &) { throw OffsetOutOfRangeException(...); }
asOffset(s) ==
    IF s.err = "AddressOutOfRange" THEN [s EXCEPT !.err = "OffsetOutOfRange"] ELSE s

\* Allocation::address(offset) once throwIfInvalid has been passed.
offsetCheck(s1, a, offset) ==
    IF s1.err # "none" \/ revision = "new" THEN s1
    ELSE IF offset > s1.size[a] THEN throw(s1, "OffsetOutOfRange")
    ELSE s1

\* Allocation::address(offset): the checks it makes before it adds.
addressOf(s, a, offset) == offsetCheck(throwIfInvalid(s, a), a, offset)

\* The new revision: the start of the span is in range and find passes.
spanStart(s1, a, address) ==
    IF s1.err # "none" THEN s1
    ELSE IF ~inRange(s1, a, address) THEN throw(s1, "AddressOutOfRange")
    ELSE findRaises(s1, address)

read_old(s, a, offset, n) ==
    asOffset(Allocator_read(throwIfInvalid(s, a), a, s.pointer[a] + offset, n))

read_mid(s, a, offset, n) ==
    IF ~s.allocator[a] THEN throw(s, "AccessViolation")
    ELSE asOffset(Allocator_read(throwIfNotBound(s, a), a, s.pointer[a] + offset, n))

\* if (willSplit(address, size)) splitRead(...) else read(allocation, ...).
readSpan(s2, a, address, n) ==
    IF s2.err # "none" THEN s2
    ELSE IF willSplit(s2, address, n) THEN splitRead(s2, address, n)
    ELSE Allocator_read(s2, a, address, n)

read_new(s, a, offset, n) ==
    asOffset(readSpan(spanStart(throwIfInvalid(s, a), a, s.pointer[a] + offset),
                      a, s.pointer[a] + offset, n))

Allocation_read(s, a, offset, n) ==
    IF s.err # "none" THEN s
    ELSE IF revision = "old" THEN read_old(s, a, offset, n)
    ELSE IF revision = "mid" THEN read_mid(s, a, offset, n)
    ELSE read_new(s, a, offset, n)

write_old(s, a, offset, data) ==
    Allocator_write(addressOf(s, a, offset), a, s.pointer[a] + offset, data)

write_mid(s, a, offset, data) ==
    asOffset(Allocator_write(throwIfNotBound(addressOf(s, a, offset), a), a,
                             s.pointer[a] + offset, data))

\* if (willSplit(address, size)) splitWrite(...) else write(allocation, ...).
writeSpan(s2, a, destAddress, data) ==
    IF s2.err # "none" THEN s2
    ELSE IF willSplit(s2, destAddress, Len(data))
    THEN splitWrite(s2, destAddress, data)
    ELSE Allocator_write(s2, a, destAddress, data)

write_new(s, a, offset, data) ==
    asOffset(writeSpan(spanStart(addressOf(s, a, offset), a, s.pointer[a] + offset),
                       a, s.pointer[a] + offset, data))

Allocation_write(s, a, offset, data) ==
    IF s.err # "none" THEN s
    ELSE IF revision = "old" THEN write_old(s, a, offset, data)
    ELSE IF revision = "mid" THEN write_mid(s, a, offset, data)
    ELSE write_new(s, a, offset, data)

\* clone once the source is known to be valid: the checks the new revision
\* makes on the target.
cloneChecks(s1, a) ==
    IF s1.err # "none" \/ revision # "new" THEN s1
    ELSE throwIfNotBound(throwIfNoAllocator(s1, a), a)

\* if (this->size() != allocation.size()) this->reallocate(allocation.size());
cloneSize(s2, a, b, p, ub) ==
    IF s2.err # "none" THEN s2
    ELSE IF getSize(s2, a) # getSize(s2, b)
    THEN Allocation_reallocate(s2, a, getSize(s2, b), p, ub)
    ELSE s2

\* this->write(data), data being what allocation.read() returned.
cloneWrite(s4, a) ==
    IF s4.err # "none" THEN s4
    ELSE [Allocation_write(s4, a, 0, s4.ret) EXCEPT !.ret = <<>>]

\* std::vector<BYTE> data = allocation.read();
cloneRead(s3, b) ==
    IF s3.err # "none" THEN s3
    ELSE Allocation_read(s3, b, 0, getSize(s3, b))

\* Allocation::clone (mid, new).
Allocation_clone(s, a, b, p, ub) ==
    cloneWrite(cloneRead(cloneSize(cloneChecks(throwIfInvalid(s, b), a),
                                   a, b, p, ub),
                         b),
               a)

\* this->pointer = pool; this->size = size;
putFields(s3, a, p, n) ==
    IF s3.err # "none" THEN s3
    ELSE [s3 EXCEPT !.pointer[a] = p, !.size[a] = n]

\* CopyMemory(this->pointer, allocation.pointer, allocation.size), s5 being
\* the state with the source bytes in ret.
storeCopy(s5, p) ==
    IF s5.err # "none" THEN s5
    ELSE [writeAddress(s5, p, s5.ret) EXCEPT !.ret = <<>>]

\* The fault of the copy surfaces as an access violation.
asAccessViolation(s6) ==
    IF s6.err = fault THEN [s6 EXCEPT !.err = "AccessViolation"] ELSE s6

\* operator=(const Allocation &) of the old revision once the allocator is
\* taken: an invalid source hands over its fields, a valid one is copied into
\* a new pool of its size.
constAssign(s1, a, b, p, ub) ==
    IF ~Allocation_isValid(s1, b) THEN takeFields(s1, a, b)
    ELSE asAccessViolation(
             storeCopy(
                 readAddress(
                     putFields(bindOrRebind(pool(s1, s1.size[b], p), a, p, ub),
                               a, p, s1.size[b]),
                     s1.pointer[b], s1.size[b]),
                 p))

\* operator=(const Allocation &) of the old revision, its deep copy.
operator_assign_const_old(s, a, b, p, ub) ==
    constAssign(takeAllocator(s, a, b), a, b, p, ub)

----------------------------------------------------------------------------
\* Destruction of the Allocator.

\* The turns the while loop of the destructor is followed for.
MaxTurns == 16

\* this->unpool(address) in ~Allocator.  In part_002 the function that is
\* called there is Allocator::unpool itself, which throws VoidAllocatorException.
destructorUnpool(s, address, ub) ==
    IF s.err # "none" THEN s
    ELSE IF revision = "new" THEN throw(s, "VoidAllocator")
    ELSE Allocator_unpool(s, address, ub)

\* this->unbind(*iter->second.begin()) in ~Allocator: Allocator::unbind, with
\* the unpool it ends with being the one a destructor reaches.
destructorUnbind(s, a, ub) ==
    IF s.err # "none" THEN s
    ELSE IF revision # "new" THEN Allocator_unbind(s, a, ub)
    ELSE IF throwIfNotPooled(throwIfNotBound(s, a), s.pointer[a]).err # "none"
    THEN throwIfNotPooled(throwIfNotBound(s, a), s.pointer[a])
    ELSE IF s.bindings[s.pointer[a]] \ {a} = {} /\ isPooled(s, s.pointer[a])
    THEN throw([eraseBinding(s, a, s.pointer[a])
                    EXCEPT !.addressPools = Drop(@, s.pointer[a]),
                           !.pointer[a] = NULL],
               "VoidAllocator")
    ELSE [eraseBinding(s, a, s.pointer[a])
              EXCEPT !.addressPools = Drop(@, s.pointer[a]),
                     !.pointer[a] = NULL]

\* The else branch of the while loop: the binding set of iter->first is empty.
destructorErase(s, address, ub) ==
    IF destructorUnpool(s, address, ub).err # "none" /\ isPooled(s, address)
    THEN destructorUnpool(s, address, ub)
    ELSE IF isPooled(s, address)
    THEN [destructorUnpool(s, address, ub) EXCEPT !.bindings = Drop(@, address)]
    ELSE [s EXCEPT !.bindings = Drop(@, address)]

RECURSIVE destructorBindings(_, _, _)

\* while (iter != bindings.end()) { ...; iter = bindings.begin(); }
\* A loop that is still running after MaxTurns turns is reported as "diverges".
destructorBindings(s, ub, turns) ==
    IF s.err # "none" \/ DOMAIN s.bindings = {} THEN s
    ELSE IF turns = 0 THEN throw(s, "diverges")
    ELSE IF s.bindings[first(DOMAIN s.bindings)] # {}
    THEN destructorBindings(
             destructorUnbind(s, first(s.bindings[first(DOMAIN s.bindings)]), ub),
             ub, turns - 1)
    ELSE destructorBindings(destructorErase(s, first(DOMAIN s.bindings), ub),
                            ub, turns - 1)

RECURSIVE destructorBindings_old(_, _, _)

\* The two nested for loops of the old revision: the inner one is the loop of
\* unpool over bindings[iter->first]; ++iter follows an iterator whose node the
\* body may have erased.
destructorBindings_old(s, it, ub) ==
    IF s.err # "none" \/ it = 0 THEN s
    ELSE LET s1 == unpoolLoop(s, it, nextIn(s.bindings[it], 0), ub)
             erased == /\ s1.err = "none"
                       /\ s.bindings[it] # {}
                       /\ s1.bindings[it] = {}
         IN  destructorBindings_old(
                 s1,
                 IF erased /\ ub = "end" THEN 0 ELSE nextIn(DOMAIN s1.bindings, it),
                 ub)

RECURSIVE destructorPool(_, _, _)

\* for (iter = memoryPool.begin(); iter != memoryPool.end(); ++iter)
\*    unpool(iter->first);
\* unpool erases the node of iter, and ++iter goes to the next node or to end().
destructorPool(s, it, ub) ==
    IF s.err # "none" \/ it = 0 THEN s
    ELSE destructorPool(
             destructorUnpool(s, it, ub),
             IF ub = "end" THEN 0 ELSE nextIn(DOMAIN s.memoryPool, it),
             ub)

\* Allocator::~Allocator.  The set `allocations` of the Allocations the
\* Allocator made itself is empty: every Allocation here was constructed by
\* its user.
Allocator_destroy(s, ub) ==
    LET s1 == IF revision = "old"
              THEN destructorBindings_old(s, nextIn(DOMAIN s.bindings, 0), ub)
              ELSE destructorBindings(s, ub, MaxTurns)
    IN  destructorPool(s1, nextIn(DOMAIN s1.memoryPool, 0), ub)

----------------------------------------------------------------------------
\* The state machine.

Sizes == 1..MaxSize
Offsets == 0..MaxSize
Datas(len) == UNION {[1..n -> Byte] : n \in 0..len}

\* A second Allocator, fresh, with none of the Allocations H constructed on it.
NoPeer(H) ==
    [memoryPool |-> <<>>, bindings |-> <<>>, addressPools |-> <<>>,
     associations |-> [a \in H |-> NULL], members |-> {}]

\* A fresh Allocator and the Allocations H constructed on it.
Empty(H) ==
    /\ memoryPool = <<>>
    /\ heap = [x \in Addr |-> 0]
    /\ bindings = <<>>
    /\ allocator = [a \in H |-> TRUE]
    /\ pointer = [a \in H |-> NULL]
    /\ size = [a \in H |-> 0]
    /\ addressPools = <<>>
    /\ split = TRUE
    /\ peer = NoPeer(H)

\* NumAllocs Allocations, in the two revisions that have copy, clone and the
\* destructor-safe unbind in common.
Init ==
    /\ revision \in {"mid", "new"}
    /\ space = SmallSpace
    /\ Empty(Alloc)

InitOld ==
    /\ revision = "old"
    /\ space = SmallSpace
    /\ Empty(Alloc)

InitBind ==
    /\ revision \in {"mid", "new"}
    /\ space = SmallSpace
    /\ Empty(MoreAlloc)

InitSplit ==
    /\ revision = "new"
    /\ space = MaxAddr
    /\ Empty(Alloc)

\* The call returns or throws: what it did to the program becomes the state.
\* A call that new BYTE[] cannot serve is not taken.
Commit(s) ==
    /\ s.err # "NoMemory"
    /\ memoryPool' = s.memoryPool
    /\ heap' = s.heap
    /\ bindings' = s.bindings
    /\ allocator' = s.allocator
    /\ pointer' = s.pointer
    /\ size' = s.size
    /\ addressPools' = s.addressPools
    /\ split' = s.split
    /\ peer' = [peer EXCEPT !.members = {h \in @ : ~s.allocator[h]}]
    /\ UNCHANGED <<revision, space>>

Allocate(a, n, p) ==
    /\ p \in Places(State, n)
    /\ Commit(Allocation_allocate(State, a, n, p))

Reallocate(a, n, p, ub) ==
    /\ p \in Places(State, n)
    /\ Commit(Allocation_reallocate(State, a, n, p, ub))

Deallocate(a, ub) ==
    Commit(Allocation_deallocate(State, a, ub))

Copy(a, b, ub) ==
    /\ a # b
    /\ Commit(IF revision = "old" THEN operator_assign_old(State, a, b, ub)
              ELSE Allocation_copy(State, a, b, ub))

\* a = b, in the two revisions that tell it from copy.
Assign(a, b, ub) ==
    /\ a # b
    /\ revision # "old"
    /\ Commit(operator_assign(State, a, b, ub))

\* The handle is destroyed and a fresh one is constructed in its place.
Destroy(a, ub) ==
    LET s1 == destroy(State, a, ub)
    IN  Commit(IF s1.err = "none" THEN construct(s1, a) ELSE s1)

Clone(a, b, p, ub, hw) ==
    /\ a # b
    /\ p \in Places(State, getSize(State, b))
    /\ Commit(IF revision = "old"
              THEN operator_assign_const_old(StateIn(hw, 0), a, b, p, ub)
              ELSE Allocation_clone(StateIn(hw, 0), a, b, p, ub))

Bind(a, address) ==
    Commit(Allocator_bind(State, a, address))

Rebind(a, address, ub) ==
    Commit(Allocator_rebind(State, a, address, ub))

Unbind(a, ub) ==
    Commit(Allocator_unbind(State, a, ub))

Repool(address, n, p, ub, page) ==
    /\ p \in Places(State, n)
    /\ Commit(Allocator_repool([State EXCEPT !.page = page], address, n, p, ub))

Unpool(address, ub) ==
    Commit(Allocator_unpool(State, address, ub))

Read(a, offset, n, hw) ==
    Commit(Allocation_read(StateIn(hw, 0), a, offset, n))

Write(a, offset, data, hw, junk) ==
    Commit(Allocation_write(StateIn(hw, junk), a, offset, data))

\* Allocator::allowSplitting and Allocator::denySplitting.
AllowSplitting ==
    /\ revision = "new"
    /\ Commit(Allocator_allowSplitting(State))

DenySplitting ==
    /\ revision = "new"
    /\ Commit(Allocator_denySplitting(State))

SplitRead(address, n, hw) ==
    /\ revision = "new"
    /\ Commit(splitRead(StateIn(hw, 0), address, n))

SplitWrite(address, data, hw, junk) ==
    /\ revision = "new"
    /\ Commit(splitWrite(StateIn(hw, junk), address, data))

\* The Allocation interface and the binding interface of the Allocator.
Next ==
    \/ \E a \in Alloc, n \in Sizes, p \in Addr \cup {NULL} : Allocate(a, n, p)
    \/ \E a \in Alloc, n \in Sizes, p \in Addr \cup {NULL}, ub \in IteratorOutcomes :
           Reallocate(a, n, p, ub)
    \/ \E a \in Alloc, ub \in IteratorOutcomes : Deallocate(a, ub)
    \/ \E a, b \in Alloc, ub \in IteratorOutcomes : Copy(a, b, ub)
    \/ \E a, b \in Alloc, p \in Addr \cup {NULL}, ub \in IteratorOutcomes,
           hw \in HardwareOutcomes : Clone(a, b, p, ub, hw)
    \/ \E a \in Alloc, address \in Addr : Bind(a, address)
    \/ \E a \in Alloc, address \in Addr, ub \in IteratorOutcomes : Rebind(a, address, ub)
    \/ \E a \in Alloc, ub \in IteratorOutcomes : Unbind(a, ub)
    \/ \E a, b \in Alloc, ub \in IteratorOutcomes : Assign(a, b, ub)
    \/ \E a \in Alloc, ub \in IteratorOutcomes : Destroy(a, ub)

Spec == Init /\ [][Next]_vars

\* The binding interface of the Allocator with one more Allocation, so that an
\* extent can keep an alias while another extent is bound.
NextBind ==
    \/ \E a \in MoreAlloc, n \in Sizes, p \in Addr \cup {NULL} : Allocate(a, n, p)
    \/ \E a, b \in MoreAlloc, ub \in IteratorOutcomes : Copy(a, b, ub)
    \/ \E a \in MoreAlloc, address \in Addr : Bind(a, address)
    \/ \E a \in MoreAlloc, address \in Addr, ub \in IteratorOutcomes :
           Rebind(a, address, ub)
    \/ \E a \in MoreAlloc, ub \in IteratorOutcomes : Unbind(a, ub)

SpecBind == InitBind /\ [][NextBind]_vars

\* The Allocation interface on one more Allocation and extents of UnitSize
\* bytes, so that an extent can have three aliases.
NextAlias ==
    \/ \E a \in MoreAlloc, p \in Addr \cup {NULL} : Allocate(a, UnitSize, p)
    \/ \E a \in MoreAlloc, p \in Addr \cup {NULL}, ub \in IteratorOutcomes :
           Reallocate(a, UnitSize, p, ub)
    \/ \E a \in MoreAlloc, ub \in IteratorOutcomes : Deallocate(a, ub)
    \/ \E a, b \in MoreAlloc, ub \in IteratorOutcomes : Copy(a, b, ub)

SpecAlias == InitBind /\ [][NextAlias]_vars

\* The Allocation interface with writes, so that the extents hold bytes other
\* than the zeros they are pooled with.
NextData ==
    \/ \E a \in Alloc, n \in Sizes, p \in Addr \cup {NULL} : Allocate(a, n, p)
    \/ \E a \in Alloc, ub \in IteratorOutcomes : Deallocate(a, ub)
    \/ \E a, b \in Alloc, ub \in IteratorOutcomes : Copy(a, b, ub)
    \/ \E a \in Alloc, data \in Datas(MaxSize), hw \in HardwareOutcomes :
           Write(a, 0, data, hw, 0)

SpecData == Init /\ [][NextData]_vars

\* The pool interface of the Allocator under the Allocation interface.
NextPool ==
    \/ \E a \in Alloc, n \in Sizes, p \in Addr \cup {NULL} : Allocate(a, n, p)
    \/ \E a \in Alloc, ub \in IteratorOutcomes : Deallocate(a, ub)
    \/ \E a, b \in Alloc, ub \in IteratorOutcomes : Copy(a, b, ub)
    \/ \E address \in Addr, n \in Sizes, p \in Addr \cup {NULL},
          ub \in IteratorOutcomes, page \in HardwareOutcomes :
           Repool(address, n, p, ub, page)
    \/ \E address \in Addr, ub \in IteratorOutcomes : Unpool(address, ub)

SpecPool == Init /\ [][NextPool]_vars

\* The old revision.
NextOld ==
    \/ \E a \in Alloc, n \in Sizes, p \in Addr \cup {NULL} : Allocate(a, n, p)
    \/ \E a \in Alloc, n \in Sizes, p \in Addr \cup {NULL}, ub \in IteratorOutcomes :
           Reallocate(a, n, p, ub)
    \/ \E a \in Alloc, ub \in IteratorOutcomes : Deallocate(a, ub)
    \/ \E a, b \in Alloc, ub \in IteratorOutcomes : Copy(a, b, ub)
    \/ \E a \in Alloc, ub \in IteratorOutcomes : Unbind(a, ub)

SpecOld == InitOld /\ [][NextOld]_vars

\* The data path and the split engine of the new revision on an address space
\* of MaxAddr bytes.
NextSplit ==
    \/ \E a \in Alloc, n \in Sizes, p \in Addr \cup {NULL} : Allocate(a, n, p)
    \/ \E a \in Alloc, ub \in IteratorOutcomes : Deallocate(a, ub)
    \/ \E a \in Alloc, offset \in Offsets, n \in 0..MaxLen, hw \in HardwareOutcomes :
           Read(a, offset, n, hw)
    \/ \E a \in Alloc, offset \in Offsets, data \in Datas(MaxLen),
           hw \in HardwareOutcomes, junk \in Byte : Write(a, offset, data, hw, junk)
    \/ \E address \in Addr, n \in 0..MaxLen, hw \in HardwareOutcomes :
           SplitRead(address, n, hw)
    \/ \E address \in Addr, data \in Datas(MaxLen), hw \in HardwareOutcomes,
           junk \in Byte : SplitWrite(address, data, hw, junk)
    \/ AllowSplitting
    \/ DenySplitting

SpecSplit == InitSplit /\ [][NextSplit]_vars

\* Two Allocators.  Peer is the program as the second Allocator and the
\* Allocations that point to it see it: its tables stand where the tables of
\* the first one stand in State, and an Allocation has an allocator there when
\* its allocator field points to the second Allocator.  In the new revision the
\* base address of an Allocation is the entry of the Allocator's associations.
Peer ==
    [State EXCEPT !.memoryPool = peer.memoryPool,
                  !.bindings = peer.bindings,
                  !.addressPools = peer.addressPools,
                  !.allocator = [h \in DOMAIN allocator |-> h \in peer.members],
                  !.pointer = IF revision = "new" THEN peer.associations ELSE pointer]

\* What a call made on the second Allocator did becomes the state: its tables
\* go to peer, and an Allocation whose allocator field now points to the
\* second Allocator no longer points to the first.
CommitPeer(s) ==
    /\ s.err # "NoMemory"
    /\ peer' = [memoryPool |-> s.memoryPool, bindings |-> s.bindings,
                addressPools |-> s.addressPools,
                associations |-> IF revision = "new" THEN s.pointer
                                 ELSE peer.associations,
                members |-> {h \in DOMAIN s.allocator : s.allocator[h]}]
    /\ heap' = s.heap
    /\ allocator' = [h \in DOMAIN allocator |-> allocator[h] /\ ~s.allocator[h]]
    /\ pointer' = IF revision = "new" THEN pointer ELSE s.pointer
    /\ size' = s.size
    /\ UNCHANGED <<revision, space, memoryPool, bindings, addressPools, split>>

\* new BYTE[n] serves both Allocators from the one heap of the process.
OwnAllocate(a, n, p) ==
    /\ allocator[a]
    /\ Fits(Peer, p, n)
    /\ Allocate(a, n, p)

PeerAllocate(a, n, p) ==
    /\ a \in peer.members
    /\ Fits(State, p, n) /\ Fits(Peer, p, n)
    /\ CommitPeer(Allocation_allocate(Peer, a, n, p))

OwnDeallocate(a, ub) ==
    /\ allocator[a]
    /\ Deallocate(a, ub)

PeerDeallocate(a, ub) ==
    /\ a \in peer.members
    /\ CommitPeer(Allocation_deallocate(Peer, a, ub))

\* a.copy(b) and a = b, b being an Allocation of the first Allocator.
OwnCopy(a, b, ub) ==
    /\ allocator[b]
    /\ Copy(a, b, ub)

OwnAssign(a, b, ub) ==
    /\ allocator[b]
    /\ Assign(a, b, ub)

\* a.copy(b) and a = b, b being an Allocation of the second Allocator.
PeerCopy(a, b, ub) ==
    /\ a # b
    /\ b \in peer.members
    /\ CommitPeer(Allocation_copy(Peer, a, b, ub))

PeerAssign(a, b, ub) ==
    /\ a # b
    /\ b \in peer.members
    /\ CommitPeer(operator_assign(Peer, a, b, ub))

\* Each Allocation is constructed on one of the two Allocators.
InitOwner ==
    /\ revision \in {"mid", "new"}
    /\ space = SmallSpace
    /\ memoryPool = <<>>
    /\ heap = [x \in Addr |-> 0]
    /\ bindings = <<>>
    /\ pointer = [a \in Alloc |-> NULL]
    /\ size = [a \in Alloc |-> 0]
    /\ addressPools = <<>>
    /\ split = TRUE
    /\ \E M \in SUBSET Alloc :
           /\ allocator = [a \in Alloc |-> a \notin M]
           /\ peer = [NoPeer(Alloc) EXCEPT !.members = M]

\* The Allocation interface on two Allocators.
NextOwner ==
    \/ \E a \in Alloc, n \in Sizes, p \in Addr : OwnAllocate(a, n, p)
    \/ \E a \in Alloc, n \in Sizes, p \in Addr : PeerAllocate(a, n, p)
    \/ \E a \in Alloc, ub \in IteratorOutcomes : OwnDeallocate(a, ub)
    \/ \E a \in Alloc, ub \in IteratorOutcomes : PeerDeallocate(a, ub)
    \/ \E a, b \in Alloc, ub \in IteratorOutcomes : OwnCopy(a, b, ub)
    \/ \E a, b \in Alloc, ub \in IteratorOutcomes : PeerCopy(a, b, ub)
    \/ \E a, b \in Alloc, ub \in IteratorOutcomes : OwnAssign(a, b, ub)
    \/ \E a, b \in Alloc, ub \in IteratorOutcomes : PeerAssign(a, b, ub)

SpecOwner == InitOwner /\ [][NextOwner]_vars

----------------------------------------------------------------------------
\* The claims.

\* A valid Allocation: it is bound to an address currently present in the pool.
valid(s, a) == Allocator_isBound(s, a) /\ isPooled(s, s.pointer[a])

\* a and b are the two Allocations of extent X.
Aliased(s, a, b, X) ==
    /\ a # b
    /\ valid(s, a) /\ valid(s, b)
    /\ s.pointer[a] = X /\ s.pointer[b] = X
    /\ s.bindings[X] = {a, b}

\* After the release of its alias: X is pooled, b is bound to X and valid.
Survives(s, b, X) ==
    /\ s.err = "none"
    /\ isPooled(s, X)
    /\ Allocator_isBound(s, b) /\ s.pointer[b] = X
    /\ Allocation_isValid(s, b)

\* After the release of b as well: X is no longer pooled.
Released(s, X) == s.err = "none" /\ ~isPooled(s, X)

\* C1: for two Allocations a and b aliased on the same extent X, after a is
\* released (a.deallocate() or unbind(a)) X is still in the pool and b is still
\* bound to X and valid; after b is then released X is no longer in the pool.
C1_AliasRelease ==
    \A a, b \in Alloc, ub \in IteratorOutcomes :
        Aliased(State, a, b, pointer[a]) =>
            LET X == pointer[a]
                d == Allocation_deallocate(State, a, ub)
                u == Allocator_unbind(State, a, ub)
            IN  /\ Survives(d, b, X)
                /\ Released(Allocation_deallocate(d, b, ub), X)
                /\ Survives(u, b, X)
                /\ Released(Allocator_unbind(u, b, ub), X)

\* C2: in every reachable state every key of the bindings table is a key of
\* the pool table: no binding entry, empty or not, survives for an address
\* that has been unpooled.
C2_BindingsWithinPool == DOMAIN bindings \subseteq DOMAIN memoryPool

C5_SizeIsExtentSize ==
    \A a \in Alloc :
        valid(State, a) => getSize(State, a) = memoryPool[pointer[a]]

\* C6: for every valid Allocation a and every data with len(data) = a.size(),
\* a.write(0, data) succeeds and the a.read(0, a.size()) that follows it
\* returns exactly data.
C6_WriteReadRoundTrip ==
    \A a \in Alloc, hw \in HardwareOutcomes :
        (valid(State, a) /\ Allocation_isValid(State, a)) =>
            \A data \in [1..getSize(State, a) -> Byte] :
                LET w == Allocation_write(StateIn(hw, 0), a, 0, data)
                    r == Allocation_read(w, a, 0, getSize(w, a))
                IN  /\ w.err = "none"
                    /\ r.err = "none"
                    /\ r.ret = data

\* C7: read(offset, size) and write(offset, data) of a valid Allocation fail
\* with OffsetOutOfRange and transfer no bytes whenever offset + size exceeds
\* the size of the Allocation, also when the pooled extent that follows the
\* extent of the Allocation is adjacent to it.
C7_OffsetOutOfRange ==
    \A a \in Alloc, offset \in Offsets, data \in Datas(MaxLen),
       hw \in HardwareOutcomes :
        (/\ valid(State, a)
         /\ Allocation_isValid(State, a)
         /\ offset + Len(data) > getSize(State, a))
        => LET r == Allocation_read(StateIn(hw, 0), a, offset, Len(data))
               w == Allocation_write(StateIn(hw, 0), a, offset, data)
           IN  /\ r.err = "OffsetOutOfRange"
               /\ r.ret = <<>>
               /\ w.err = "OffsetOutOfRange"
               /\ w.heap = heap

\* The extents that have an Allocation bound to them.
BoundExtents(s) ==
    {q \in DOMAIN s.memoryPool : q \in DOMAIN s.bindings /\ s.bindings[q] # {}}

\* [address, address + n) is not empty and lies within bound extents, which
\* are then pairwise adjacent along it.
Covered(s, address, n) ==
    /\ n >= 1
    /\ Range(address, n) \subseteq
           UNION {Range(q, s.memoryPool[q]) : q \in BoundExtents(s)}

\* The bytes stored at [address, address + n).
Stored(s, address, n) == [i \in 1..n |-> s.heap[address + i - 1]]

\* C8: when [address, address + size) is covered by a run of pairwise adjacent
\* bound extents, splitRead(address, size) returns size bytes, the i-th being
\* the byte stored at address + i.
C8_SplitReadConcatenates ==
    \A address \in Addr, n \in 1..MaxLen, hw \in HardwareOutcomes :
        Covered(State, address, n) =>
            LET r == splitRead(StateIn(hw, 0), address, n)
            IN  /\ r.err = "none"
                /\ r.ret = Stored(State, address, n)

\* C9: when the start address is covered by a bound extent but
\* [address, address + size) is not covered by a run of adjacent bound extents,
\* splitRead(address, size) fails with SplitsExceeded: not with a range error
\* and not with a result.
C9_SplitsExceeded ==
    \A address \in Addr, n \in 1..MaxLen, hw \in HardwareOutcomes :
        (Covered(State, address, 1) /\ ~Covered(State, address, n)) =>
            splitRead(StateIn(hw, 0), address, n).err = "SplitsExceeded"

\* C10: when [destination, destination + len(data)) is covered by a run of
\* pairwise adjacent bound extents, splitWrite(destination, data) succeeds,
\* stores byte i of data at destination + i and changes no other byte.
C10_SplitWriteStores ==
    \A destination \in Addr, data \in Datas(MaxLen),
       hw \in HardwareOutcomes, junk \in Byte :
        Covered(State, destination, Len(data)) =>
            LET w == splitWrite(StateIn(hw, junk), destination, data)
            IN  /\ w.err = "none"
                /\ \A x \in Addr :
                       w.heap[x] = IF x \in Range(destination, Len(data))
                                   THEN data[x - destination + 1]
                                   ELSE heap[x]

\* The bound extents that cover address.
Covering(s, address) ==
    {q \in BoundExtents(s) : address \in Range(q, s.memoryPool[q])}

\* C11: willSplit(address, size) returns false whenever no bound Allocation
\* covers address and whenever [address, address + size) lies inside one
\* pooled extent, size = 0 included; it returns true only if the end of the
\* extent that covers address is the start of the next pooled extent and
\* address + size goes past that end.
C11_WillSplit ==
    \A address \in Addr, n \in 0..MaxLen :
        /\ Covering(State, address) = {} =>
               /\ findRaises(State, address).err = "none"
               /\ ~willSplit(State, address, n)
        /\ (\E q \in DOMAIN memoryPool :
                q <= address /\ address + n <= q + memoryPool[q]
                /\ address < q + memoryPool[q]) =>
               /\ findRaises(State, address).err = "none"
               /\ ~willSplit(State, address, n)
        /\ (findRaises(State, address).err = "none" /\ willSplit(State, address, n)) =>
               \E q \in Covering(State, address) :
                   /\ isPooled(State, q + memoryPool[q])
                   /\ address + n > q + memoryPool[q]

\* C12: when a valid Allocation of size n holding bytes B is reallocated to
\* size m, afterwards its size is m, read(0, min(n, m)) returns the first
\* min(n, m) bytes of B, and on growth the bytes from n to m - 1 read as zero.
C12_ReallocateKeepsBytes ==
    \A a \in Alloc, m \in Sizes, ub \in IteratorOutcomes :
        \A p \in Places(State, m) \ {NULL} :
            (/\ valid(State, a)
             /\ Allocation_isValid(State, a)
             /\ getSize(State, a) = memoryPool[pointer[a]])
            => LET n == memoryPool[pointer[a]]
                   B == Stored(State, pointer[a], n)
                   t == Allocation_reallocate(State, a, m, p, ub)
                   kept == Allocation_read(t, a, 0, Min(n, m))
                   all == Allocation_read(t, a, 0, m)
               IN  /\ t.err = "none"
                   /\ getSize(t, a) = m
                   /\ kept.err = "none"
                   /\ kept.ret = [i \in 1..Min(n, m) |-> B[i]]
                   /\ all.err = "none"
                   /\ all.ret = [i \in 1..m |-> IF i <= n THEN B[i] ELSE 0]

\* The errors of an access through a handle that has no extent.
DeadErrors == {"DeadAllocation", "UnboundAllocation", "NoAllocator"}

Refers(s, a, X) ==
    \/ s.pointer[a] = X
    \/ X \in DOMAIN s.bindings /\ a \in s.bindings[X]

\* C14: once an extent X has been released, no Allocation records X as its
\* base address or is in the binding set of X; and when a later allocate() of
\* an Allocation c pools its extent at an address p, c is the only Allocation
\* that refers to p: no other handle is bound to the new extent, valid on it
\* or able to read or write it.
C14_NoStaleHandle ==
    /\ \A a \in Alloc, X \in Addr : Refers(State, a, X) => isPooled(State, X)
    /\ \A c \in Alloc, n \in Sizes, hw \in HardwareOutcomes :
           \A p \in Places(State, n) \ {NULL} :
               LET t == Allocation_allocate(State, c, n, p)
                   u == [t EXCEPT !.hw = hw]
               IN  (t.err = "none" /\ isPooled(t, p)) =>
                       \A a \in Alloc \ {c} :
                           /\ ~Refers(t, a, p)
                           /\ Allocation_read(u, a, 0, 1).err = "none" =>
                                  t.pointer[a] \notin Range(p, n)
                           /\ \A x \in Range(p, n) :
                                  Allocation_write(u, a, 0, <<1>>).heap[x] = t.heap[x]

\* A write of data through Allocation a is read back through Allocation b.
ReadsBack(s, a, b, data) ==
    LET w == Allocation_write(s, a, 0, data)
        r == Allocation_read(w, b, 0, Len(data))
    IN  w.err = "none" /\ r.err = "none" /\ r.ret = data

\* C15: a.copy(b) with b valid succeeds and leaves a and b bound to the extent
\* of b: the same base address, the same size, both in the binding set of that
\* extent.  No extent is pooled and no pooled byte changes; what is then
\* written through either of the two is read back through the other.  The
\* extent a was bound to before is released exactly when a was the last
\* Allocation bound to it.
C15_CopyAliases ==
    \A a, b \in Alloc, ub \in IteratorOutcomes, hw \in HardwareOutcomes :
        (a # b /\ valid(State, b) /\ Allocation_isValid(State, b)) =>
            LET X == pointer[b]
                t == Allocation_copy(State, a, b, ub)
                u == [t EXCEPT !.hw = hw]
            IN  /\ t.err = "none"
                /\ t.pointer[a] = X /\ t.pointer[b] = X
                /\ valid(t, a) /\ valid(t, b)
                /\ getSize(t, a) = getSize(t, b)
                /\ DOMAIN t.memoryPool \subseteq DOMAIN memoryPool
                /\ \A x \in PooledBytes(t) : t.heap[x] = heap[x]
                /\ \A data \in [1..getSize(t, a) -> Byte] :
                       ReadsBack(u, a, b, data) /\ ReadsBack(u, b, a, data)
                /\ (valid(State, a) /\ pointer[a] # X) =>
                       (~isPooled(t, pointer[a]) <=> bindings[pointer[a]] = {a})

\* What Allocation a reads of its whole extent.
Contents(s, a) == Allocation_read(s, a, 0, getSize(s, a)).ret

\* Allocation a can read its whole extent.
Readable(s, a) == Allocation_read(s, a, 0, getSize(s, a)).err = "none"

\* A write of data through Allocation a leaves what Allocation b reads as it was.
Unseen(s, a, b, data) ==
    LET w == Allocation_write(s, a, 0, data)
    IN  w.err = "none" /\ Contents(w, b) = Contents(s, b)

\* C16: a.clone(b) with b valid succeeds, whatever a was before (unallocated,
\* owning an extent, aliasing the extent of b), and leaves a bound to an extent
\* other than the extent of b, with the size of b and reading the bytes b
\* reads.  b keeps its binding, size and bytes, and so does every other
\* Allocation; what is then written through a is not seen through b, nor the
\* converse.
C16_CloneIndependent ==
    \A a, b \in Alloc, ub \in IteratorOutcomes, hw \in HardwareOutcomes :
        \A p \in Places(State, getSize(State, b)) \ {NULL} :
            (a # b /\ valid(State, b) /\ Allocation_isValid(State, b)) =>
                LET t == Allocation_clone(StateIn(hw, 0), a, b, p, ub)
                    u == [t EXCEPT !.hw = hw]
                IN  /\ t.err = "none"
                    /\ valid(t, a)
                    /\ t.pointer[a] # t.pointer[b]
                    /\ getSize(t, a) = getSize(t, b)
                    /\ Readable(u, a) /\ Readable(u, b)
                    /\ Contents(u, a) = Contents(u, b)
                    /\ \A c \in Alloc \ {a} :
                           valid(State, c) =>
                               /\ valid(t, c)
                               /\ t.pointer[c] = pointer[c]
                               /\ getSize(t, c) = getSize(State, c)
                               /\ Contents(u, c) = Contents(StateIn(hw, 0), c)
                    /\ \A data \in [1..getSize(t, a) -> Byte] :
                           Unseen(u, a, b, data) /\ Unseen(u, b, a, data)

\* Allocation a is in a binding set of the binding table T.
Holds(T, a) == \E X \in DOMAIN T : a \in T[X]

\* C17: an Allocation is in the binding sets of at most one Allocator, the one
\* its allocator field points to: after a copy or an assignment from an
\* Allocation of the other Allocator it is in no binding set of the Allocator
\* it was bound on before.
C17_OneOwner ==
    \A a \in Alloc :
        /\ ~(Holds(bindings, a) /\ Holds(peer.bindings, a))
        /\ Holds(bindings, a) => allocator[a]
        /\ Holds(peer.bindings, a) => a \in peer.members

\* The tables of the Allocator and the fields of the Allocations are the same in
\* s and t.
SameTables(s, t) ==
    /\ t.memoryPool = s.memoryPool
    /\ t.bindings = s.bindings
    /\ t.addressPools = s.addressPools
    /\ t.allocator = s.allocator
    /\ t.pointer = s.pointer
    /\ t.size = s.size
    /\ t.heap = s.heap

C19_AllocateFresh ==
    \A a \in Alloc, n \in Sizes, hw \in HardwareOutcomes :
        \A p \in Places(State, n) \ {NULL} :
            (allocator[a] /\ ~Allocation_isValid(State, a)) =>
                LET t == Allocation_allocate(State, a, n, p)
                    r == Allocation_read([t EXCEPT !.hw = hw], a, 0, n)
                IN  /\ t.err = "none"
                    /\ ~isPooled(State, p)
                    /\ t.memoryPool = Put(memoryPool, p, n)
                    /\ t.pointer[a] = p
                    /\ t.bindings[p] = {a}
                    /\ \A X \in DOMAIN memoryPool :
                           /\ X \in DOMAIN t.bindings
                           /\ X \in DOMAIN bindings => t.bindings[X] = bindings[X]
                    /\ \A b \in Alloc \ {a} :
                           t.pointer[b] = pointer[b] /\ getSize(t, b) = getSize(State, b)
                    /\ \A x \in PooledBytes(State) : t.heap[x] = heap[x]
                    /\ Allocation_isValid(t, a)
                    /\ getSize(t, a) = n
                    /\ r.err = "none"
                    /\ r.ret = [i \in 1..n |-> 0]

\* C20: destroying an Allocation that is bound takes it out of the binding set
\* of its extent, and out of every binding set, and releases the extent when
\* it was the last Allocation bound to it; destroying an Allocation that is
\* not bound or has no allocator changes no table.
C20_DestroyUnbinds ==
    \A a \in Alloc, ub \in IteratorOutcomes :
        LET t == destroy(State, a, ub)
        IN  /\ (allocator[a] /\ Allocator_isBound(State, a)) =>
                   /\ t.err = "none"
                   /\ ~Holds(t.bindings, a)
                   /\ bindings[pointer[a]] = {a} => ~isPooled(t, pointer[a])
                   /\ bindings[pointer[a]] # {a} =>
                          /\ isPooled(t, pointer[a]) <=> isPooled(State, pointer[a])
                          /\ t.bindings[pointer[a]] = bindings[pointer[a]] \ {a}
            /\ (~allocator[a] \/ ~Holds(bindings, a)) =>
                   /\ t.memoryPool = memoryPool
                   /\ t.bindings = bindings
                   /\ t.addressPools = addressPools

BoundTo(s, X) == IF X \in DOMAIN s.bindings THEN s.bindings[X] ELSE {}

\* C22: unbind(allocation) on an Allocation that is not bound fails with
\* UnboundAllocation and leaves the pool and the binding table as they were;
\* on a bound Allocation it succeeds, takes exactly that Allocation out of the
\* binding set of its extent, and the Allocation is null afterwards.
C22_Unbind ==
    \A a \in DOMAIN pointer, ub \in IteratorOutcomes :
        LET t == Allocator_unbind(State, a, ub)
            X == pointer[a]
        IN  IF ~Allocator_isBound(State, a)
            THEN t.err = "UnboundAllocation" /\ SameTables(State, t)
            ELSE /\ t.err = "none"
                 /\ BoundTo(t, X) = bindings[X] \ {a}
                 /\ \A Y \in DOMAIN bindings \ {X} : BoundTo(t, Y) = bindings[Y]
                 /\ ~predicateRaises(t, a)
                 /\ Allocation_isNull(t, a)

\* C23: for a valid Allocation of size L, inRange(o, s) is true exactly when
\* s > 0 and o + s <= L: it is false at o = L for every s, false for s = 0 at
\* every o, and true for o = 0 and s = L.
C23_InRange ==
    \A a \in Alloc :
        (valid(State, a) /\ Allocation_isValid(State, a)) =>
            LET L == getSize(State, a)
            IN  /\ \A o \in 0..(L + 1), n \in 0..(L + 1) :
                       inRangeOffsetSize(State, a, o, n) <=> (n > 0 /\ o + n <= L)
                /\ \A n \in 0..(L + 1) : ~inRangeOffsetSize(State, a, L, n)
                /\ \A o \in 0..(L + 1) : ~inRangeOffsetSize(State, a, o, 0)
                /\ inRangeOffsetSize(State, a, 0, L)

\* C24: isValid() is true exactly when the Allocation is in the binding set of
\* its base address in its Allocator and that address is in the pool; so in
\* every reachable state isValid() implies isBound() and implies not isNull().
C24_ValidIsBoundAndPooled ==
    \A a \in Alloc :
        /\ Allocation_isValid(State, a) <=> (allocator[a] /\ valid(State, a))
        /\ Allocation_isValid(State, a) =>
               Allocation_isBound(State, a) /\ ~Allocation_isNull(State, a)

\* The errors of a state or range check.
LogicalErrors ==
    DeadErrors \cup {"ZeroSize", "UnpooledAddress", "AddressOutOfRange",
                     "OffsetOutOfRange"}

allocateRefusal(s, a) ==
    allocatePool(throwIfNoAllocator(s, a), a, 1, NULL).err

\* C26: pool(0) fails with ZeroSize and changes nothing; allocate(0) that
\* passes its own checks and reallocate(0) fail with ZeroSize and change
\* nothing, and a valid Allocation on which reallocate(0) failed is still bound
\* to its extent with the same size and bytes.
C26_ZeroSize ==
    \A a \in Alloc, p \in Places(State, 0), ub \in IteratorOutcomes :
        LET q == pool(State, 0, p)
            t == Allocation_allocate(State, a, 0, p)
            r == Allocation_reallocate(State, a, 0, p, ub)
        IN  /\ q.err = "ZeroSize"
            /\ SameTables(State, q)
            /\ allocateRefusal(State, a) = "NoMemory" => t.err = "ZeroSize"
            /\ t.err # "none"
            /\ SameTables(State, t)
            /\ (valid(State, a) /\ Allocation_isValid(State, a)) =>
                   /\ r.err = "ZeroSize"
                   /\ SameTables(State, r)
                   /\ valid(r, a)
                   /\ Allocation_isValid(r, a)
                   /\ getSize(r, a) = getSize(State, a)
                   /\ Contents([r EXCEPT !.err = "none"], a) = Contents(State, a)

\* C27: repool(address, n) and unpool(address) on an address that is not in
\* the pool fail with UnpooledAddress and leave the pool, the binding table and
\* the Allocations as they were; the failed repool pools no new extent.
C27_UnpooledAddress ==
    \A address \in Addr \cup {NULL}, n \in Sizes, ub \in IteratorOutcomes :
        \A p \in Places(State, n) :
            LET r == Allocator_repool(State, address, n, p, ub)
                u == Allocator_unpool(State, address, ub)
            IN  ~isPooled(State, address) =>
                    /\ r.err = "UnpooledAddress"
                    /\ SameTables(State, r)
                    /\ DOMAIN r.memoryPool = DOMAIN memoryPool
                    /\ u.err = "UnpooledAddress"
                    /\ SameTables(State, u)

\* An address that is not pooled, while another extent is pooled and bound and
\* the store has room for the extent a repool would pool.
C27_Witness ==
    \E address \in Addr, n \in Sizes, p \in Addr :
        /\ ~isPooled(State, address)
        /\ p \in Places(State, n)
        /\ \E X \in DOMAIN memoryPool : BoundTo(State, X) # {}
        /\ Allocator_repool(State, address, n, p, "next").err = "UnpooledAddress"
        /\ Allocator_unpool(State, address, "next").err = "UnpooledAddress"

\* C28: after a = b, with a bound to extent X before and b either valid on
\* another extent or not valid, a is no longer in the binding set of X and X
\* is released if a was the only Allocation bound to it; when b is not valid,
\* a is null afterwards and in no binding set.
C28_AssignUnbinds ==
    \A a, b \in Alloc, ub \in IteratorOutcomes :
        LET X == pointer[a]
            t == operator_assign(State, a, b, ub)
        IN  (/\ a # b
             /\ valid(State, a)
             /\ Allocation_isValid(State, a)
             /\ ~predicateRaises(State, b)
             /\ Allocation_isValid(State, b) => valid(State, b) /\ pointer[b] # X
             /\ t.err = "none")
            => /\ a \notin BoundTo(t, X)
               /\ bindings[X] = {a} => ~isPooled(t, X)
               /\ ~Allocation_isValid(State, b) =>
                      /\ Allocation_isNull(t, a)
                      /\ \A Y \in DOMAIN t.bindings : a \notin t.bindings[Y]

\* Every Allocation of K is bound to the n-byte extent at p, reports p and n,
\* reads the bytes B kept from the old extent, and none is bound to X, which
\* is no longer pooled.
Moved(t, K, X, p, n, B) ==
    /\ t.err = "none"
    /\ isPooled(t, p) /\ t.memoryPool[p] = n
    /\ ~isPooled(t, X)
    /\ BoundTo(t, X) = {}
    /\ BoundTo(t, p) = K
    /\ \A c \in K :
           /\ t.pointer[c] = p
           /\ Allocation_isValid(t, c)
           /\ getSize(t, c) = n
           /\ LET kept == Allocation_read(t, c, 0, Min(n, Len(B)))
              IN  /\ kept.err = "none"
                  /\ kept.ret = [i \in 1..Min(n, Len(B)) |-> B[i]]

\* C29: reallocate(n) through an Allocation of extent X, and repool(X, n), with
\* two or more valid Allocations bound to X: all of them are bound to the new
\* extent afterwards, report its address and size n and read the kept bytes,
\* none is bound to X and X is released.
C29_ReallocateMovesAll ==
    \A a \in DOMAIN pointer, n \in Sizes, ub \in IteratorOutcomes :
        \A p \in Places(State, n) \ {NULL} :
            LET X == pointer[a]
                K == BoundTo(State, X)
                B == Contents(State, a)
            IN  (/\ valid(State, a)
                 /\ Cardinality(K) >= 2
                 /\ \A c \in K : /\ valid(State, c)
                                  /\ Allocation_isValid(State, c)
                                  /\ pointer[c] = X
                                  /\ getSize(State, c) = memoryPool[X]
                                  /\ Readable(State, c))
                => /\ Moved(Allocation_reallocate(State, a, n, p, ub), K, X, p, n, B)
                   /\ Moved(Allocator_repool(State, X, n, p, ub), K, X, p, n, B)

\* Every Allocation of K is null and in no binding set, X is no longer pooled
\* and has no entry in the binding table, and the other extents are pooled as
\* before.
Unpooled(t, K, X) ==
    /\ t.err = "none"
    /\ ~isPooled(t, X)
    /\ \A Y \in DOMAIN memoryPool \ {X} : isPooled(t, Y) /\ t.memoryPool[Y] = memoryPool[Y]
    /\ X \notin DOMAIN t.bindings
    /\ \A c \in K :
           /\ ~predicateRaises(t, c)
           /\ Allocation_isNull(t, c)
           /\ \A Y \in DOMAIN t.bindings : c \notin t.bindings[Y]

\* C30: unpool(X), and Allocator::deallocate of an Allocation bound to X, on
\* an extent X with one or more valid Allocations bound to it returns without
\* error, every one of those Allocations is null and unbound afterwards, X is
\* no longer pooled and the binding table has no entry for X.
C30_UnpoolUnbindsAll ==
    \A X \in DOMAIN memoryPool, ub \in IteratorOutcomes :
        LET K == BoundTo(State, X)
        IN  (/\ K # {}
             /\ \A c \in K : /\ valid(State, c)
                              /\ Allocation_isValid(State, c)
                              /\ pointer[c] = X)
            => /\ Unpooled(Allocator_unpool(State, X, ub), K, X)
               /\ \A a \in K : Unpooled(Allocator_deallocate(State, a, ub), K, X)

\* C31: rebind(a, X) of a valid Allocation a that is bound to X already, and
\* a.copy(b) with a and b both bound to X (b = a included), return without
\* error and leave the pool, the binding table and the Allocations as they
\* were: a is still in bindings[X] and X is still pooled.
C31_RebindSameAddress ==
    \A a, b \in Alloc, ub \in IteratorOutcomes :
        LET X == pointer[a]
            r == Allocator_rebind(State, a, X, ub)
            c == Allocation_copy(State, a, b, ub)
        IN  (valid(State, a) /\ Allocation_isValid(State, a)) =>
                /\ r.err = "none"
                /\ SameTables(State, r)
                /\ a \in BoundTo(r, X)
                /\ isPooled(r, X)
                /\ (/\ valid(State, b) /\ Allocation_isValid(State, b)
                    /\ pointer[b] = X)
                   => /\ c.err = "none"
                      /\ SameTables(State, c)
                      /\ a \in BoundTo(c, X)
                      /\ isPooled(c, X)

\* C32: in every reachable state an Allocation is in at most one binding set,
\* and it is in bindings[X] exactly when X is the address it records (its
\* pointer, its associations entry) on this Allocator.
C32_OneBindingPerAllocation ==
    \A a \in DOMAIN pointer :
        /\ Cardinality({X \in DOMAIN bindings : a \in bindings[X]}) <= 1
        /\ \A X \in Addr :
               a \in BoundTo(State, X) <=> (allocator[a] /\ pointer[a] = X)

\* Allocation c is in t what it was before the call: same base address, same
\* size, bound and valid, and it reads the same bytes.
Untouched(t, c) ==
    /\ t.err = "none"
    /\ t.pointer[c] = pointer[c]
    /\ ~predicateRaises(t, c)
    /\ getSize(t, c) = getSize(State, c)
    /\ valid(t, c)
    /\ Allocation_isValid(t, c)
    /\ Allocation_isBound(t, c)
    /\ Readable(t, c)
    /\ Contents(t, c) = Contents(State, c)

\* C33: unbind(a) and a.deallocate() of a valid Allocation a whose extent X
\* other valid Allocations alias leave each of the others with its base
\* address, its size, its bound and valid status and its bytes.
C33_UnbindFrame ==
    \A a \in Alloc, ub \in IteratorOutcomes :
        LET X == pointer[a]
            others == BoundTo(State, X) \ {a}
        IN  (/\ valid(State, a) /\ Allocation_isValid(State, a)
             /\ others # {}
             /\ \A c \in BoundTo(State, X) :
                    /\ valid(State, c) /\ Allocation_isValid(State, c)
                    /\ pointer[c] = X
                    /\ getSize(State, c) = memoryPool[X]
                    /\ Readable(State, c))
            => \A c \in others :
                   /\ Untouched(Allocator_unbind(State, a, ub), c)
                   /\ Untouched(Allocation_deallocate(State, a, ub), c)

\* The three predicates of an Allocation.
Predicates == {"Allocation::isNull", "Allocation::isBound", "Allocation::isValid"}

\* C34: for every Allocation of every reachable state isNull(), isBound() and
\* isValid() return a boolean: the call chain from one to the next reaches a
\* base case and nothing is raised.
C34_PredicatesTerminate ==
    \A a \in Alloc, f \in Predicates :
        IF revision = "new"
        THEN evaluate(State, a, f, {}) \in {"true", "false"}
        ELSE ~predicateRaises(State, a)

\* C35: a repool whose copy faults after the new extent has been pooled fails
\* with the fault of the hardware and leaves the pool, the binding table and the
\* Allocations as they were: the new extent is not left pooled and every
\* Allocation bound to the old extent is still bound to it.
C35_RepoolFaultRollsBack ==
    \A address \in DOMAIN memoryPool, n \in Sizes, ub \in IteratorOutcomes :
        \A p \in Places(State, n) \ {NULL} :
            LET r == Allocator_repool([State EXCEPT !.page = "fault"],
                                      address, n, p, ub)
            IN  BoundTo(State, address) # {} =>
                    /\ r.err = fault
                    /\ SameTables(State, r)
                    /\ \A c \in BoundTo(State, address) : c \in BoundTo(r, address)

\* C36: destroying the Allocator comes to an end in every reachable state and
\* leaves an empty pool and an empty binding table, every Allocation that was
\* bound being null, and no extent being released twice (no release fails).
C36_DestructorReleasesAll ==
    \A ub \in IteratorOutcomes :
        LET r == Allocator_destroy(State, ub)
        IN  /\ r.err = "none"
            /\ r.memoryPool = <<>>
            /\ r.bindings = <<>>
            /\ \A a \in DOMAIN pointer :
                   Allocator_isBound(State, a) => r.pointer[a] = NULL

\* Offsets, addresses and sizes at both ends of the w-bit range.
Wide == (0..(MaxSize + 1)) \cup {SizeModulus - k : k \in 1..(MaxSize + 1)}

\* C37: for a valid Allocation inRange(offset, size) and inRange(address, size)
\* are false whenever offset + size (address + size) is more than the largest
\* w-bit value and wraps: an access that wraps runs past the end of the
\* Allocation and is never counted as in range.
C37_NoWrappedRange ==
    \A a \in Alloc, n \in Wide :
        (/\ valid(State, a) /\ Allocation_isValid(State, a)
         /\ getSize(State, a) = memoryPool[pointer[a]])
        => /\ \A offset \in Wide :
                  offset + n >= SizeModulus
                      => ~inRangeOffsetSize(State, a, offset, n)
           /\ \A address \in Wide :
                  address + n >= SizeModulus
                      => ~inRangeSize(State, a, address, n)

\* The errors of a range check.
RangeErrors == {"AddressOutOfRange", "OffsetOutOfRange"}

\* n bytes at offset of the valid Allocation a begin in its extent and end in
\* the pooled and bound extent that starts where that extent ends.
Straddles(s, a, offset, n) ==
    LET L == s.memoryPool[s.pointer[a]]
        Y == s.pointer[a] + L
    IN  /\ getSize(s, a) = L
        /\ offset < L
        /\ offset + n > L
        /\ Y \in DOMAIN s.memoryPool
        /\ offset + n <= L + s.memoryPool[Y]
        /\ \E b \in Alloc : valid(s, b) /\ Allocation_isValid(s, b) /\ s.pointer[b] = Y

\* C38: the switch of the Allocator governs split access.  After
\* denySplitting() willSplit is false for every address and size, and a read
\* or a write that straddles two adjacent extents is reported as out of range;
\* after allowSplitting(), and by default, it is not.
C38_SplitSwitch ==
    revision = "new" =>
        /\ ~Allocator_splits(State) =>
               \A address \in Addr, n \in 0..MaxLen : ~willSplit(State, address, n)
        /\ \A a \in Alloc, offset \in Offsets, data \in Datas(MaxLen) :
               (/\ valid(State, a) /\ Allocation_isValid(State, a)
                /\ Straddles(State, a, offset, Len(data)))
               => LET r == Allocation_read(State, a, offset, Len(data))
                      w == Allocation_write(State, a, offset, data)
                  IN  /\ (r.err \in RangeErrors) <=> ~Allocator_splits(State)
                      /\ (w.err \in RangeErrors) <=> ~Allocator_splits(State)

\* C39: a splitWrite that fails with SplitsExceeded because the span runs into
\* a gap before all of data is placed leaves every byte as it was: no piece of
\* data stays written in the extents walked before the gap.
C39_SplitWriteAllOrNothing ==
    \A destination \in Addr, data \in Datas(MaxLen),
       hw \in HardwareOutcomes, junk \in Byte :
        LET w == splitWrite(StateIn(hw, junk), destination, data)
        IN  (/\ Covered(State, destination, 1)
             /\ ~Covered(State, destination, Len(data))
             /\ w.err = "SplitsExceeded")
            => w.heap = heap

====
